---- MODULE Spec2Model ----
(***************************************************************************)
(* A model of src/Wordle/information_theory.py: the Wordle feedback        *)
(* evaluator (get_guess_result), the result tensor, the entropy selector,  *)
(* the candidate filter, the two strategy runners and compare_algorithms.  *)
(*                                                                         *)
(* Three specifications share the module's variables:                      *)
(*   SpecEval    get_guess_result, one loop iteration per step             *)
(*   SpecSelect  compute_highest_entropy applied to a result tensor        *)
(*   Spec        compare_algorithms driving both strategy runners          *)
(* Positions of a word and indices of a list are 1-based inside the        *)
(* sequences; guess_idx and highest_guess_idx keep Python's 0-based value. *)
(***************************************************************************)
EXTENDS Integers, Sequences, FiniteSets

VARIABLES
    pc,                 \* position of the running function
    true_word,          \* get_guess_result: the secret word
    guess,              \* get_guess_result: the guess
    true_dict,          \* get_guess_result: letter -> remaining count
    result,             \* get_guess_result / the runners: a feedback pattern
    i,                  \* loop index of the running loop
    possible_words,     \* the caller's list of possible secret words
    allowed_words,      \* the caller's list of allowed guesses
    all_guess_results,  \* the caller's (n,m,5) result tensor
    word,               \* the secret handed to start_game
    play_words,         \* a runner's local possible_words
    play_results,       \* a runner's local all_guess_results
    num_games,          \* a runner's local num_games: <<>> while unbound
    guess_idx,          \* the index of the last guess played (0-based)
    played,             \* history: the guesses played in this game, each with its feedback
    iterations,         \* history: the iterations of the running runner's loop
    game_word,          \* WordleGame: the session's secret
    game_count,         \* WordleGame: the session's guess counter
    entry,              \* the function the caller invoked
    number_naive_guesses,   \* compare_algorithms: play_game_naive's counts
    number_entropy_guesses, \* compare_algorithms: play_game_entropy's counts
    returned,           \* what the invoked function returned: <<>> until then
    highest             \* compute_highest_entropy's returned pair

vars == <<pc, true_word, guess, true_dict, result, i, possible_words,
          allowed_words, all_guess_results, word, play_words, play_results,
          num_games, guess_idx, played, iterations, game_word, game_count, entry,
          number_naive_guesses, number_entropy_guesses, returned, highest>>

evalVars == <<true_word, guess, true_dict, result, i>>
callerVars == <<possible_words, allowed_words, all_guess_results, word>>
playVars == <<play_words, play_results, num_games, guess_idx, played, iterations>>
gameVars == <<game_word, game_count>>
compareVars == <<entry, number_naive_guesses, number_entropy_guesses, returned>>

----------------------------------------------------------------------------
(* Bounds and constants *)

\* np.zeros(5), 3**np.arange(0, 5): the word length the code is written for
WordLen == 5

\* number of letters the evaluator's inputs are drawn from
AlphabetSize == 2

\* longest candidate list handed to compare_algorithms
MaxCands == 3

\* cap on the guesses of one game (the runners' loops are unbounded)
MaxGuesses == 4

\* compare_algorithms' n, the number of games per strategy
Trials == 1

Letter == <<"a", "b", "c", "d", "e">>
Alphabet == {Letter[k] : k \in 1..AlphabetSize}

boxed == <<"b", "o", "x", "e", "d">>
excel == <<"e", "x", "c", "e", "l">>
allot == <<"a", "l", "l", "o", "t">>
lulls == <<"l", "u", "l", "l", "s">>
hydro == <<"h", "y", "d", "r", "o">>
hotel == <<"h", "o", "t", "e", "l">>
havoc == <<"h", "a", "v", "o", "c">>
score == <<"s", "c", "o", "r", "e">>
carry == <<"c", "a", "r", "r", "y">>
shale == <<"s", "h", "a", "l", "e">>
these == <<"t", "h", "e", "s", "e">>
jelly == <<"j", "e", "l", "l", "y">>
think == <<"t", "h", "i", "n", "k">>
untie == <<"u", "n", "t", "i", "e">>

\* the words the evaluator is run on: every word over Alphabet and the
\* spec's literal scenarios
EvalWords == [1..WordLen -> Alphabet] \cup {boxed, excel, allot, lulls}

Range(s) == {s[k] : k \in 1..Len(s)}
Occurrences(s, x) == Cardinality({k \in 1..Len(s) : s[k] = x})

ABSENT == 0
PRESENT == 1
CORRECT == 2

----------------------------------------------------------------------------
(* get_guess_result *)

\* np.zeros(5)
zeros == [k \in 1..WordLen |-> 0]

\* lines 20-25: the dictionary of letter counts of the secret
BuildDict(tw) == [l \in Range(tw) |-> Occurrences(tw, l)]

\* lines 31-35: iteration k of the first loop (green)
GreenStepNoDecrement(st, tw, g, k) ==
    IF g[k] = tw[k]
    THEN [st EXCEPT !.result[k] = 2]
    ELSE st

GreenStep(st, tw, g, k) ==
    IF g[k] = tw[k]
    THEN [st EXCEPT !.result[k] = 2, !.true_dict[g[k]] = @ - 1]
    ELSE st

\* lines 37-44: iteration k of the second loop (yellow)
YellowStepNoCount(st, g, k) ==
    IF g[k] \in DOMAIN st.true_dict /\ st.result[k] # 2
    THEN [st EXCEPT !.result[k] = 1, !.true_dict[g[k]] = @ - 1]
    ELSE IF st.result[k] # 2
         THEN [st EXCEPT !.result[k] = 0]
         ELSE st

YellowStep(st, g, k) ==
    IF g[k] \in DOMAIN st.true_dict /\ st.true_dict[g[k]] # 0 /\ st.result[k] # 2
    THEN [st EXCEPT !.result[k] = 1, !.true_dict[g[k]] = @ - 1]
    ELSE IF st.result[k] # 2
         THEN [st EXCEPT !.result[k] = 0]
         ELSE st

RECURSIVE GreenLoop(_, _, _, _)
GreenLoop(st, tw, g, k) ==
    IF k > Len(g) THEN st ELSE GreenLoop(GreenStep(st, tw, g, k), tw, g, k + 1)

RECURSIVE YellowLoop(_, _, _)
YellowLoop(st, g, k) ==
    IF k > Len(g) THEN st ELSE YellowLoop(YellowStep(st, g, k), g, k + 1)

\* lines 4-46: the whole function
get_guess_result(tw, g) ==
    YellowLoop(GreenLoop([result |-> zeros, true_dict |-> BuildDict(tw)], tw, g, 1),
               g, 1).result

(* SpecEval: get_guess_result run one loop iteration at a time *)

IdleGame ==
    /\ possible_words = <<>> /\ allowed_words = <<>> /\ all_guess_results = <<>>
    /\ word = <<>> /\ play_words = <<>> /\ play_results = <<>>
    /\ num_games = <<>> /\ guess_idx = 0 /\ played = {} /\ iterations = 0
    /\ game_word = <<>> /\ game_count = 0
    /\ number_naive_guesses = <<>> /\ number_entropy_guesses = <<>>
    /\ returned = <<>> /\ highest = <<>>

InitEval ==
    /\ pc = "green"
    /\ true_word \in EvalWords
    /\ guess \in EvalWords
    /\ true_dict = BuildDict(true_word)
    /\ result = zeros
    /\ i = 1
    /\ entry = "get_guess_result"
    /\ IdleGame

EvalGreen ==
    /\ pc = "green"
    /\ LET st == GreenStep([result |-> result, true_dict |-> true_dict],
                           true_word, guess, i)
       IN /\ result' = st.result
          /\ true_dict' = st.true_dict
    /\ IF i < Len(guess)
       THEN i' = i + 1 /\ pc' = "green"
       ELSE i' = 1 /\ pc' = "yellow"
    /\ UNCHANGED <<true_word, guess, callerVars, playVars, gameVars, compareVars, highest>>

EvalYellow ==
    /\ pc = "yellow"
    /\ LET st == YellowStep([result |-> result, true_dict |-> true_dict], guess, i)
       IN /\ result' = st.result
          /\ true_dict' = st.true_dict
    /\ IF i < Len(guess)
       THEN i' = i + 1 /\ pc' = "yellow"
       ELSE i' = i /\ pc' = "returned"
    /\ UNCHANGED <<true_word, guess, callerVars, playVars, gameVars, compareVars, highest>>

NextEval == EvalGreen \/ EvalYellow

SpecEval == InitEval /\ [][NextEval]_vars

(* Claims about get_guess_result, checked under SpecEval *)

Credited(x) ==
    Cardinality({k \in 1..WordLen : result[k] \in {PRESENT, CORRECT} /\ guess[k] = x})

\* C1: for every secret and guess and every letter x, the positions coded
\* CORRECT or PRESENT whose guess letter is x never outnumber the occurrences
\* of x in the secret, and no letter's remaining count goes below 0 during
\* either pass.
C1_CreditWithinSecretCount ==
    /\ \A x \in Range(guess) : Credited(x) <= Occurrences(true_word, x)
    /\ \A l \in DOMAIN true_dict : true_dict[l] >= 0

\* a returned pattern where a letter the guess repeats is credited exactly as
\* often as the secret holds it, and one occurrence is left uncredited
C1_Witness ==
    /\ pc = "returned"
    /\ \E x \in Range(guess) :
          /\ Occurrences(guess, x) > Occurrences(true_word, x)
          /\ Occurrences(true_word, x) > 0
          /\ Credited(x) = Occurrences(true_word, x)

ExactMatches(x) ==
    Cardinality({k \in 1..WordLen : guess[k] = true_word[k] /\ guess[k] = x})

EarlierPresent(k) ==
    Cardinality({j \in 1..(k - 1) : result[j] = PRESENT /\ guess[j] = guess[k]})

\* C2: the returned pattern is the two-pass reference: position k is CORRECT
\* iff guess[k] = secret[k]; a non-CORRECT position k is PRESENT iff the
\* occurrences of guess[k] in the secret, minus the exact matches carrying that
\* letter, minus the earlier positions with that letter marked PRESENT, is
\* > 0, and ABSENT otherwise; and evaluate("boxed", "excel") is [0,1,0,2,0].
C2_TwoPassReference ==
    pc = "returned" =>
        /\ \A k \in 1..WordLen :
              /\ (result[k] = CORRECT) <=> (guess[k] = true_word[k])
              /\ guess[k] # true_word[k] =>
                    /\ result[k] \in {ABSENT, PRESENT}
                    /\ (result[k] = PRESENT) <=>
                          (Occurrences(true_word, guess[k]) - ExactMatches(guess[k])
                              - EarlierPresent(k) > 0)
        /\ (true_word = boxed /\ guess = excel) =>
              result = <<ABSENT, PRESENT, ABSENT, CORRECT, ABSENT>>

\* "boxed"/"excel": the first e is ABSENT because the exact match of the
\* second e used up the secret's only e before the second pass
C2_Witness ==
    /\ pc = "returned"
    /\ true_word = boxed /\ guess = excel
    /\ result[1] = ABSENT /\ result[4] = CORRECT

----------------------------------------------------------------------------
(* get_all_guess_results *)

\* lines 75-89: row g holds the result of allowed_words[g] for every possible
\* secret word, in the order of possible_words
get_all_guess_results(pw, aw) ==
    [g \in 1..Len(aw) |-> [c \in 1..Len(pw) |-> get_guess_result(pw[c], aw[g])]]

\* all_guess_results.shape[1]: the length of the candidate axis
Shape1(agr) == Len(agr[1])

----------------------------------------------------------------------------
(* compute_highest_entropy *)

\* line 108: np.dot(pattern, 3**np.arange(0, 5)), the base-3 label of a pattern
Label(pattern) ==
    pattern[1] + 3 * pattern[2] + 9 * pattern[3] + 27 * pattern[4] + 81 * pattern[5]

SetMin(S) == CHOOSE m \in S : \A x \in S : m <= x

\* line 113: np.unique(guess_word, return_counts=True): the number of
\* occurrences of each label, in ascending order of the labels
RECURSIVE CountsOf(_, _)
CountsOf(labels, S) ==
    IF S = {} THEN <<>>
    ELSE <<Occurrences(labels, SetMin(S))>> \o CountsOf(labels, S \ {SetMin(S)})

unique_counts(labels) == CountsOf(labels, Range(labels))

RECURSIVE SumSeq(_)
SumSeq(s) == IF s = <<>> THEN 0 ELSE s[1] + SumSeq(Tail(s))

(* float64 values between 0 and 8 are held exactly, in units of 2^-55, as   *)
(* <<hi, lo>> with value hi * 2^28 + lo and 0 <= lo < 2^28.                 *)
Limb == 2^28

\* line 115: the float64 -1*(c/n) * np.log2(c/n), for 1 <= c <= n <= 8, with
\* the division, log2 and product each rounded to nearest
TermBits ==
    << <<<<0, 0>>>>,
       <<<<67108864, 0>>, <<0, 0>>>>,
       <<<<70910021, 251612780>>, <<52341558, 145311620>>, <<0, 0>>>>,
       <<<<67108864, 0>>, <<67108864, 0>>, <<41779042, 172068748>>, <<0, 0>>>>,
       <<<<62328782, 186570704>>, <<70970474, 51018860>>, <<59348308, 160496204>>,
         <<34566765, 263098998>>, <<0, 0>>>>,
       <<<<57824632, 81067146>>, <<70910021, 251612780>>, <<67108864, 0>>,
         <<52341558, 145311620>>, <<29419900, 75350224>>, <<0, 0>>>>,
       <<<<53828114, 50933276>>, <<69308306, 25170708>>, <<70314314, 97733144>>,
         <<61920767, 165385188>>, <<46537775, 163561274>>, <<25584861, 233814210>>,
         <<0, 0>>>>,
       <<<<50331648, 0>>, <<67108864, 0>>, <<71221169, 86034376>>, <<67108864, 0>>,
         <<56880794, 20946324>>, <<41779042, 172068748>>, <<22624336, 157795724>>,
         <<0, 0>>>> >>

Term(c, n) == TermBits[n][c]

\* float64 addition of two such values: the exact sum rounded to 53
\* significant bits, ties to even
FloatAdd(x, y) ==
    LET lo0 == x[2] + y[2]
        hi == x[1] + y[1] + (lo0 \div Limb)
        lo == lo0 % Limb
        unit == IF hi < 2^25 THEN 1
                ELSE IF hi < 2^26 THEN 2
                ELSE IF hi < 2^27 THEN 4
                ELSE IF hi < 2^28 THEN 8
                ELSE 16
        r == lo % unit
        up == \/ 2 * r > unit
              \/ 2 * r = unit /\ (lo \div unit) % 2 = 1
        lo1 == lo - r + (IF up THEN unit ELSE 0)
    IN <<hi + (lo1 \div Limb), lo1 % Limb>>

FloatGreater(x, y) == x[1] > y[1] \/ (x[1] = y[1] /\ x[2] > y[2])

\* Python's sum(...) over the terms, left to right from 0
RECURSIVE SumTerms(_, _, _)
SumTerms(acc, counts, n) ==
    IF counts = <<>> THEN acc
    ELSE SumTerms(FloatAdd(acc, Term(counts[1], n)), Tail(counts), n)

\* lines 112-115: the entropy of one guess row
RowEntropy(row) ==
    LET counts == unique_counts([c \in 1..Len(row) |-> Label(row[c])])
    IN SumTerms(<<0, 0>>, counts, SumSeq(counts))

\* line 121: np.argmax, the first index of the greatest value (0-based)
ArgMin(entropies) ==
    (CHOOSE k \in 1..Len(entropies) :
        /\ \A j \in 1..Len(entropies) : ~FloatGreater(entropies[k], entropies[j])
        /\ \A j \in 1..(k - 1) : FloatGreater(entropies[j], entropies[k])) - 1

ArgMax(entropies) ==
    (CHOOSE k \in 1..Len(entropies) :
        /\ \A j \in 1..Len(entropies) : ~FloatGreater(entropies[j], entropies[k])
        /\ \A j \in 1..(k - 1) : FloatGreater(entropies[k], entropies[j])) - 1

\* lines 106-124: <<highest_guess, highest_guess_idx>>
compute_highest_entropy(agr, aw) ==
    LET entropies == [g \in 1..Len(agr) |-> RowEntropy(agr[g])]
        highest_guess_idx == ArgMax(entropies)
    IN <<aw[highest_guess_idx + 1], highest_guess_idx>>

----------------------------------------------------------------------------
(* filter_words *)

RECURSIVE Compress(_, _)
\* s[mask]: the elements of s whose mask entry is true, in order
Compress(s, mask) ==
    IF s = <<>> THEN <<>>
    ELSE (IF mask[1] THEN <<s[1]>> ELSE <<>>) \o Compress(Tail(s), Tail(mask))

\* line 151: np.all(all_guess_results[guess_idx] == result, axis=1)
MaskAny(agr, gi, res) ==
    [c \in 1..Len(agr[gi + 1]) |-> \E k \in 1..WordLen : agr[gi + 1][c][k] = res[k]]

Mask(agr, gi, res) ==
    [c \in 1..Len(agr[gi + 1]) |-> \A k \in 1..WordLen : agr[gi + 1][c][k] = res[k]]

\* lines 150-155: the filtered words and the filtered tensor
filter_words_keep_all(agr, pw, gi, res) ==
    [possible_words |-> pw, all_guess_results |-> agr]

filter_words(agr, pw, gi, res) ==
    LET mask == Mask(agr, gi, res)
    IN [possible_words |-> Compress(pw, mask),
        all_guess_results |-> [g \in 1..Len(agr) |-> Compress(agr[g], mask)]]

----------------------------------------------------------------------------
(* SpecSelect: compute_highest_entropy applied to result tensors *)

RECURSIVE SubSeqsOf(_)
\* the order-preserving sublists of s
SubSeqsOf(s) ==
    IF s = <<>> THEN {<<>>}
    ELSE LET rest == SubSeqsOf(Tail(s))
         IN rest \cup {<<s[1]>> \o t : t \in rest}

\* the non-empty lists without repetition over a set of words
ListsOver(S) ==
    {s \in UNION {[1..n -> S] : n \in 1..Cardinality(S)} :
        \A a, b \in 1..Len(s) : a # b => s[a] # s[b]}

SelectCands == <<score, carry, shale, these, jelly, think>>
SelectGuesses == {excel, untie}

IdleEval ==
    /\ true_word = <<>> /\ guess = <<>> /\ true_dict = <<>> /\ result = zeros
    /\ i = 0

InitSelect ==
    /\ pc = "select"
    /\ entry = "compute_highest_entropy"
    /\ possible_words \in SubSeqsOf(SelectCands) \ {<<>>}
    /\ allowed_words \in ListsOver(SelectGuesses)
    /\ all_guess_results = get_all_guess_results(possible_words, allowed_words)
    /\ word = <<>>
    /\ play_words = <<>> /\ play_results = <<>> /\ num_games = <<>>
    /\ guess_idx = 0 /\ played = {} /\ iterations = 0
    /\ game_word = <<>> /\ game_count = 0
    /\ number_naive_guesses = <<>> /\ number_entropy_guesses = <<>>
    /\ returned = <<>> /\ highest = <<>>
    /\ IdleEval

Select ==
    /\ pc = "select"
    /\ highest' = compute_highest_entropy(all_guess_results, allowed_words)
    /\ pc' = "returned"
    /\ UNCHANGED <<evalVars, callerVars, playVars, gameVars, compareVars>>

NextSelect == Select

SpecSelect == InitSelect /\ [][NextSelect]_vars

\* the exact order of two entropies over the same number of candidates:
\* -sum (c/n) log2(c/n) is the larger where the product of the c^c is the smaller
RECURSIVE PowerProduct(_)
PowerProduct(counts) ==
    IF counts = <<>> THEN 1 ELSE counts[1]^counts[1] * PowerProduct(Tail(counts))

Weight(row) == PowerProduct(unique_counts([c \in 1..Len(row) |-> Label(row[c])]))

\* C7: compute_highest_entropy returns an index within the guess list whose
\* Shannon entropy over the current candidates is >= that of every other
\* guess and strictly greater than that of every guess with a lower index
\* (ties go to the lowest index), together with the word at that index; two
\* patterns get the same label iff they are equal in all 5 positions.
C7_MaxEntropyLowestIndex ==
    pc = "returned" =>
        LET idx == highest[2]
            n == Len(allowed_words)
        IN /\ idx \in 0..(n - 1)
           /\ highest[1] = allowed_words[idx + 1]
           /\ \A g \in 1..n :
                 Weight(all_guess_results[idx + 1]) <= Weight(all_guess_results[g])
           /\ \A g \in 1..idx :
                 Weight(all_guess_results[idx + 1]) < Weight(all_guess_results[g])
           /\ \A g \in 1..n : \A c, d \in 1..Len(possible_words) :
                 (Label(all_guess_results[g][c]) = Label(all_guess_results[g][d]))
                    <=> (all_guess_results[g][c] = all_guess_results[g][d])

----------------------------------------------------------------------------
(* wordle.WordleGame, the game session the runners are handed *)

\* start_game(word=word, display=display): a session with the given secret
\* and a guess counter of 0
start_game(w) == [game_word |-> w, game_count |-> 0]

\* make_guess(guess): the feedback of the guess against the session's secret
\* and the incremented guess counter
make_guess(secret, count, g) ==
    [result |-> get_guess_result(secret, g), num_games |-> count + 1]

----------------------------------------------------------------------------
(* Spec: play_game_naive, play_game_entropy and compare_algorithms *)

Pool == {hydro, hotel, havoc}

\* the lists of possible secret words: every list over Pool, repetitions
\* included, of at most MaxCands words
CandLists == UNION {[1..n -> Pool] : n \in 0..MaxCands}

Init ==
    /\ pc = "main"
    /\ entry \in {"play_game_naive", "play_game_entropy", "compare_algorithms"}
    /\ possible_words \in CandLists
    /\ allowed_words \in ListsOver(Pool)
    /\ all_guess_results = get_all_guess_results(possible_words, allowed_words)
    \* line 252, 254: compare_algorithms fixes the secret, word='hydro'
    /\ word \in (IF entry = "compare_algorithms" THEN {hydro} ELSE Pool)
    /\ play_words = <<>> /\ play_results = <<>> /\ num_games = <<>>
    /\ guess_idx = 0 /\ played = {} /\ iterations = 0
    /\ game_word = <<>> /\ game_count = 0
    /\ number_naive_guesses = <<>> /\ number_entropy_guesses = <<>>
    /\ returned = <<>> /\ highest = <<>>
    /\ IdleEval

\* lines 246-249: compare_algorithms up to the head of its loop
CompareStart ==
    /\ pc = "main" /\ entry = "compare_algorithms"
    /\ number_naive_guesses' = <<>>
    /\ number_entropy_guesses' = <<>>
    /\ i' = 0
    /\ pc' = "loop"
    /\ UNCHANGED <<true_word, guess, true_dict, result, callerVars, playVars,
                   gameVars, entry, returned, highest>>

\* a runner is entered: its parameters are bound to the caller's objects and
\* the session is started (lines 180-182, 217); only play_game_naive sets
\* result, to np.zeros(5), and in play_game_entropy it is unbound (<<>>)
EnterRunner(name) ==
    /\ game_word' = start_game(word).game_word
    /\ game_count' = start_game(word).game_count
    /\ play_words' = possible_words
    /\ play_results' = all_guess_results
    /\ num_games' = <<>>
    /\ played' = {}
    /\ iterations' = 0
    /\ result' = (IF name = "naive" THEN zeros ELSE <<>>)
    /\ pc' = name
    /\ UNCHANGED <<true_word, guess, true_dict, i, callerVars, guess_idx,
                   compareVars, highest>>

CallNaive ==
    /\ \/ pc = "main" /\ entry = "play_game_naive"
       \/ pc = "loop" /\ i < Trials
    /\ EnterRunner("naive")

CallEntropy ==
    /\ \/ pc = "main" /\ entry = "play_game_entropy"
       \/ pc = "between"
    /\ EnterRunner("entropy")

\* one iteration of a runner's loop with the guess at index gi: make_guess,
\* then filter_words rebinding the runner's two locals
GuessAndFilter(gi) ==
    LET made == make_guess(game_word, game_count, allowed_words[gi + 1])
        kept == filter_words(play_results, play_words, gi, made.result)
    IN /\ guess_idx' = gi
       /\ result' = made.result
       /\ num_games' = <<made.num_games>>
       /\ game_count' = made.num_games
       /\ play_words' = kept.possible_words
       /\ play_results' = kept.all_guess_results
       /\ played' = played \cup {<<gi, made.result>>}
       /\ iterations' = iterations + 1
       /\ UNCHANGED <<pc, true_word, guess, true_dict, i, game_word, compareVars,
                      highest, allowed_words, word>>

\* lines 184-188, as if filter_words had filtered the caller's objects in place
NaiveStepInPlace ==
    /\ pc = "naive"
    /\ Shape1(play_results) > 1
    /\ game_count < MaxGuesses
    /\ \E gi \in 0..(Len(allowed_words) - 1) : GuessAndFilter(gi)
    /\ possible_words' = play_words'
    /\ all_guess_results' = play_results'

\* lines 184-188: one iteration of play_game_naive's loop
NaiveStep ==
    /\ pc = "naive"
    /\ Shape1(play_results) > 1
    /\ game_count < MaxGuesses
    /\ \E gi \in 0..(Len(allowed_words) - 1) : GuessAndFilter(gi)
    /\ UNCHANGED <<possible_words, all_guess_results>>

\* lines 219-223: one iteration of play_game_entropy's loop
EntropyStep ==
    /\ pc = "entropy"
    /\ Shape1(play_results) > 1
    /\ game_count < MaxGuesses
    /\ GuessAndFilter(compute_highest_entropy(play_results, allowed_words)[2])
    /\ UNCHANGED <<possible_words, all_guess_results>>

\* line 190: return num_games
naive_return(n) == n[1]

\* line 225: return num_games+1
entropy_return_plain(n) == n[1]

entropy_return(n) == n[1] + 1

\* a runner's return statement reads num_games, which is unbound when the
\* loop body never ran: Python raises UnboundLocalError
NaiveReturn ==
    /\ pc = "naive"
    /\ Shape1(play_results) <= 1
    /\ IF num_games = <<>>
       THEN pc' = "raised" /\ UNCHANGED <<number_naive_guesses, returned>>
       ELSE IF entry = "play_game_naive"
            THEN /\ returned' = <<naive_return(num_games)>>
                 /\ pc' = "done"
                 /\ UNCHANGED number_naive_guesses
            ELSE /\ number_naive_guesses' =
                       Append(number_naive_guesses, naive_return(num_games))
                 /\ pc' = "between"
                 /\ UNCHANGED returned
    /\ UNCHANGED <<evalVars, callerVars, playVars, gameVars, entry,
                   number_entropy_guesses, highest>>

EntropyReturn ==
    /\ pc = "entropy"
    /\ Shape1(play_results) <= 1
    /\ IF num_games = <<>>
       THEN pc' = "raised" /\ UNCHANGED <<number_entropy_guesses, returned, i>>
       ELSE IF entry = "play_game_entropy"
            THEN /\ returned' = <<entropy_return(num_games)>>
                 /\ pc' = "done"
                 /\ UNCHANGED <<number_entropy_guesses, i>>
            ELSE /\ number_entropy_guesses' =
                       Append(number_entropy_guesses, entropy_return(num_games))
                 /\ i' = i + 1
                 /\ pc' = "loop"
                 /\ UNCHANGED returned
    /\ UNCHANGED <<true_word, guess, true_dict, result, callerVars, playVars,
                   gameVars, entry, number_naive_guesses, highest>>

\* lines 257-260: the two means, each as <<sum, n>>
CompareReturn ==
    /\ pc = "loop" /\ i = Trials
    /\ returned' = <<<<SumSeq(number_naive_guesses), Trials>>,
                     <<SumSeq(number_entropy_guesses), Trials>>>>
    /\ pc' = "done"
    /\ UNCHANGED <<evalVars, callerVars, playVars, gameVars, entry,
                   number_naive_guesses, number_entropy_guesses, highest>>

Next ==
    \/ CompareStart
    \/ CallNaive
    \/ NaiveStep
    \/ NaiveReturn
    \/ CallEntropy
    \/ EntropyStep
    \/ EntropyReturn
    \/ CompareReturn

Spec == Init /\ [][Next]_vars

----------------------------------------------------------------------------
(* Claims about the runners and compare_algorithms, checked under Spec *)

InRunner == pc \in {"naive", "entropy"}

Last(s) == s[Len(s)]

\* the word w reproduces the feedback observed for every guess played so far
Consistent(w) ==
    \A p \in played : get_guess_result(w, allowed_words[p[1] + 1]) = p[2]

\* C3: in either runner, after any number of guess/filter iterations the
\* candidate set is exactly the order-preserving sublist of the initial
\* candidate list made of the words that reproduce the feedback of every
\* guess played; so every remaining candidate reproduces all observed
\* feedback, and the session's secret is still a candidate whenever it was in
\* the initial list.
C3_CandidatesReproduceFeedback ==
    InRunner =>
        /\ play_words =
              Compress(possible_words,
                       [c \in 1..Len(possible_words) |-> Consistent(possible_words[c])])
        /\ \A c \in 1..Len(play_words) : Consistent(play_words[c])
        /\ game_word \in Range(possible_words) => game_word \in Range(play_words)

\* two guesses have been played, candidates were dropped and the secret is
\* still among the remaining ones
C3_Witness ==
    /\ InRunner
    /\ Cardinality(played) = 2
    /\ Len(possible_words) = 3
    /\ Len(play_words) < Len(possible_words)
    /\ game_word \in Range(play_words)

\* a step that runs filter_words: one more guess has been played
FilterStep == InRunner /\ iterations' = iterations + 1

\* C4: after every filter_words call in a strategy loop the candidate axis
\* is no longer than before, and it is strictly shorter whenever the guess
\* played is the one compute_highest_entropy returns and its entropy over the
\* current candidates is greater than 0.
C4_FilterShrinks ==
    [][FilterStep =>
          /\ Shape1(play_results') <= Shape1(play_results)
          /\ Len(play_words') <= Len(play_words)
          /\ \/ Shape1(play_results') < Shape1(play_results)
             \/ ~FloatGreater(RowEntropy(play_results[guess_idx' + 1]), <<0, 0>>)
             \/ guess_idx' # compute_highest_entropy(play_results, allowed_words)[2]]_vars

\* play_game_entropy has played a guess of entropy > 0 and the candidate axis
\* is shorter than the caller's
C4_Witness ==
    /\ pc = "entropy"
    /\ iterations = 1
    /\ FloatGreater(RowEntropy(all_guess_results[guess_idx + 1]), <<0, 0>>)
    /\ Shape1(play_results) < Shape1(all_guess_results)

\* the candidate words are pairwise distinct and all appear among the allowed
\* guesses
GoodVocabulary ==
    /\ \A a, b \in 1..Len(possible_words) :
          a # b => possible_words[a] # possible_words[b]
    /\ Range(possible_words) \subseteq Range(allowed_words)

\* C5: on a vocabulary whose candidates are pairwise distinct and all among
\* the allowed guesses, for every secret in the candidate list,
\* play_game_entropy leaves its loop (it plays fewer guesses than there are
\* candidates), ends with the secret as the only candidate, and returns a
\* guess count that is at most the size of the vocabulary.
C5_EntropyGameFindsSecret ==
    (/\ entry = "play_game_entropy"
     /\ GoodVocabulary
     /\ word \in Range(possible_words)) =>
        /\ pc = "entropy" => game_count < Len(possible_words)
        /\ pc # "raised"
        /\ pc = "done" =>
              /\ play_words = <<word>>
              /\ returned[1] <= Len(allowed_words)

\* C6: in every execution of play_game_naive and of play_game_entropy the
\* number of guesses submitted to the game session before the loop exits
\* never exceeds the number of allowed guesses.  It is stated on the
\* vocabularies the claim is most plausible for: distinct candidates that are
\* all allowed guesses, the secret among them.
C6_GuessesWithinAllowed ==
    (InRunner /\ GoodVocabulary /\ word \in Range(possible_words)) =>
        game_count <= Len(allowed_words)

\* C6 as amended: play_game_entropy, on a vocabulary whose candidates are
\* pairwise distinct and all among the allowed guesses, submits fewer guesses
\* than there are candidates, and so never more than there are allowed guesses.
C6_EntropyGuessesBounded ==
    (pc = "entropy" /\ GoodVocabulary) =>
        /\ game_count <= Len(allowed_words)
        /\ possible_words # <<>> => game_count < Len(possible_words)

\* play_game_entropy has narrowed three distinct candidates to one with two
\* guesses
C6_Witness ==
    /\ pc = "entropy"
    /\ GoodVocabulary
    /\ Len(possible_words) = 3
    /\ game_count = 2
    /\ Shape1(play_results) = 1

\* C8: filter_words and both runners leave the caller's tensor and candidate
\* list unchanged and keep the guess axis of their own tensor whole, so every
\* game of compare_algorithms, for both strategies, starts from the full
\* original tensor and the full candidate list.
C8_CallerObjectsUnchanged ==
    /\ [][/\ all_guess_results' = all_guess_results
          /\ possible_words' = possible_words]_vars
    /\ [](InRunner => Len(play_results) = Len(all_guess_results))
    /\ []((InRunner /\ iterations = 0) =>
             /\ play_words = possible_words
             /\ play_results = all_guess_results
             /\ all_guess_results =
                   get_all_guess_results(possible_words, allowed_words))

\* compare_algorithms starts its entropy game on the full candidate list after
\* a naive game that filtered three candidates down
C8_Witness ==
    /\ entry = "compare_algorithms"
    /\ pc = "entropy"
    /\ iterations = 0
    /\ number_naive_guesses # <<>>
    /\ Len(possible_words) = 3
    /\ Len(play_words) = 3

C10_NoGuessStillReturns ==
    /\ pc # "raised"
    /\ (pc = "done" /\ iterations = 0 /\ entry = "play_game_naive") => returned = <<0>>
    /\ (pc = "done" /\ iterations = 0 /\ entry = "play_game_entropy") => returned = <<1>>

====
